---- MODULE Spec2Model ----
(***************************************************************************)
(* A model of yaml_reorder.py: the reconciler reorder_yaml_columns, which  *)
(* rewrites the column list of the first model of a dbt YAML schema file   *)
(* into the column order of the SQL model, and the driver main around it.  *)
(*                                                                         *)
(* Two specifications share the module.  SpecReorder calls                 *)
(* reorder_yaml_columns directly, repeatedly, on one file (as the unit     *)
(* tests do).  SpecMain runs the command line driver once over a small     *)
(* file system.                                                            *)
(***************************************************************************)
EXTENDS Integers, Sequences, FiniteSets, TLC

----------------------------------------------------------------------------
(* Bounds of the model.                                                    *)

\* Longest column list of the first model in an initial document.
MaxColumns == 2
\* Longest SQL-derived name sequence.
MaxSqlColumns == 2
\* Number of successive calls of reorder_yaml_columns on the same file.
MaxRuns == 2
\* Longest list of positional command line arguments.
MaxArgs == 2

----------------------------------------------------------------------------
(* The data: column entries, documents, files.                             *)

\* Column names, in the document and in the SQL.
Names == {"id", "email", "created_at"}

\* The value of the one opaque, optional property of a column entry.
Descriptions == {"Primary key"}

\* A column entry: a mapping with the key name and arbitrary other keys.
Entries == [name : Names] \cup [name : Names, description : Descriptions]

\* All sequences over S of length at most n.
SeqsUpTo(S, n) == UNION {[1..k -> S] : k \in 0..n}

\* A node of a sequence in the YAML text: a block mapping, possibly carrying
\* an anchor (&id001), or an alias (*id001) to an anchored mapping before it.
\* anchor = 0 is a mapping without an anchor.
MapNode(a, v) == [kind |-> "map", anchor |-> a, val |-> v]
AliasNode(a) == [kind |-> "alias", anchor |-> a]

\* The YAML text of a column list no entry of which is shared.
PlainColumns(es) == [p \in 1..Len(es) |-> MapNode(0, es[p])]

\* A file on disk: absent, not well-formed YAML, or the text of a document.
\* A document is a mapping with an optional key models (a sequence of
\* models) and another top-level key, version; a model has a name and an
\* optional key columns.
MissingFile == [kind |-> "missing"]
MalformedFile == [kind |-> "malformed"]
DocFile(d) == [kind |-> "doc", doc |-> d]

Model(n, hasColumns, cols) == [name |-> n, hasColumns |-> hasColumns, columns |-> cols]
Document(hasModels, ms) == [version |-> 2, hasModels |-> hasModels, models |-> ms]

\* What may follow the first model in a document.
LaterModels ==
  { <<>>,
    << Model("stg_events", TRUE,
             PlainColumns(<< [name |-> "email", description |-> "User email"],
                             [name |-> "id"] >>)) >> }

\* Documents whose first model has a column list.
ValidDocs ==
  { Document(TRUE, <<Model("stg_users", TRUE, PlainColumns(es))>> \o rest) :
      es \in SeqsUpTo(Entries, MaxColumns), rest \in LaterModels }

\* Documents reorder_yaml_columns rejects: no models key, an empty models
\* list, a first model without a columns key.
InvalidDocs ==
  { Document(FALSE, <<>>), Document(TRUE, <<>>) }
  \cup { Document(TRUE, <<Model("stg_users", FALSE, <<>>)>> \o rest) : rest \in LaterModels }

----------------------------------------------------------------------------
(* read_yaml_file and write_yaml_file: yaml.safe_load and yaml.dump.       *)

\* An object of the loaded tree is a value with an identity (oid): the same
\* dict may stand at several places of a list.

\* yaml.safe_load of a sequence of mappings: a mapping node becomes a fresh
\* object, an alias the very object of the anchored mapping.
LoadColumns(nodes) ==
  [p \in 1..Len(nodes) |->
     IF nodes[p].kind = "map"
     THEN [oid |-> p, val |-> nodes[p].val]
     ELSE LET q == CHOOSE q \in 1..(p - 1) :
                     nodes[q].kind = "map" /\ nodes[q].anchor = nodes[p].anchor
          IN [oid |-> q, val |-> nodes[q].val]]

\* The places where the object at place p of cols stands.
Places(cols, p) == {q \in 1..Len(cols) : cols[q].oid = cols[p].oid}

Min(S) == CHOOSE x \in S : \A y \in S : x <= y

\* The second place of a shared object: the serializer gives an object its
\* anchor when it meets it again, so anchors are numbered by second places.
SecondPlace(cols, p) == Min(Places(cols, p) \ {Min(Places(cols, p))})

AnchorId(cols, p) ==
  Cardinality({SecondPlace(cols, q) :
                 q \in {r \in 1..Len(cols) :
                          /\ Cardinality(Places(cols, r)) > 1
                          /\ SecondPlace(cols, r) <= SecondPlace(cols, p)}})

\* yaml.dump of a list of dicts: an object met before is written as an
\* alias, a shared object as an anchored mapping where it first stands.
DumpColumns(cols) ==
  [p \in 1..Len(cols) |->
     IF Cardinality(Places(cols, p)) = 1 THEN MapNode(0, cols[p].val)
     ELSE IF p = Min(Places(cols, p)) THEN MapNode(AnchorId(cols, p), cols[p].val)
     ELSE AliasNode(AnchorId(cols, p))]

\* read_yaml_file on a well-formed file: the tree, key order kept.
read_yaml_file(f) ==
  [f.doc EXCEPT !.models =
     [i \in 1..Len(f.doc.models) |->
        [f.doc.models[i] EXCEPT !.columns = LoadColumns(f.doc.models[i].columns)]]]

\* A plausible slip: only the reconciled model written back.
write_first_model_only(data) ==
  DocFile([data EXCEPT !.models =
     <<[data.models[1] EXCEPT !.columns = DumpColumns(data.models[1].columns)]>>])

\* write_yaml_file: the whole tree dumped over the file, sort_keys=False.
write_yaml_file(data) ==
  DocFile([data EXCEPT !.models =
     [i \in 1..Len(data.models) |->
        [data.models[i] EXCEPT !.columns = DumpColumns(data.models[i].columns)]]])

----------------------------------------------------------------------------
(* reorder_yaml_columns.                                                   *)

\* col_dict = {col["name"]: col for col in model["columns"]}, built entry by
\* entry: a later entry of the same name overwrites the earlier one.
RECURSIVE col_dict_upto(_, _)
col_dict_upto(columns, n) ==
  IF n = 0 THEN [k \in {} |-> 0]
  ELSE LET d == col_dict_upto(columns, n - 1)
           col == columns[n]
       IN [k \in DOMAIN d \cup {col.val.name} |->
             IF k = col.val.name THEN col ELSE d[k]]

\* A plausible slip: the first entry of a name kept, not the last.
col_dict_first_wins(columns) ==
  [k \in {columns[i].val.name : i \in 1..Len(columns)} |->
     columns[Min({i \in 1..Len(columns) : columns[i].val.name = k})]]

col_dict(columns) == col_dict_upto(columns, Len(columns))

\* A plausible slip: current_order = list(col_dict), the keys of the lookup,
\* each name once, at the place of its first entry.
current_order_from_keys(columns) ==
  LET firsts == {i \in 1..Len(columns) :
                   \A j \in 1..(i - 1) : columns[j].val.name # columns[i].val.name}
      place(k) == CHOOSE i \in firsts : Cardinality({j \in firsts : j <= i}) = k
  IN [k \in 1..Cardinality(firsts) |-> columns[place(k)].val.name]

\* current_order = [col["name"] for col in model["columns"]]
current_order(columns) == [i \in 1..Len(columns) |-> columns[i].val.name]

\* new_order = [name for name in sql_columns if name in col_dict]
new_order(sql_cols, dict) == SelectSeq(sql_cols, LAMBDA name : name \in DOMAIN dict)

\* A plausible slip: the entries rebuilt from the names alone.
reordered_names_only(order, dict) ==
  [k \in 1..Len(order) |-> [oid |-> dict[order[k]].oid, val |-> [name |-> order[k]]]]

\* model["columns"] = [col_dict[name] for name in new_order]
reordered(order, dict) == [k \in 1..Len(order) |-> dict[order[k]]]

\* A plausible slip: the columns the SQL lacks left at the end of the list.
set_columns_keep_rest(config, cols) ==
  LET old == config.models[1].columns
      kept == {cols[k].val.name : k \in 1..Len(cols)}
      rest == SelectSeq(old, LAMBDA c : c.val.name \notin kept)
  IN [config EXCEPT !.models[1].columns = cols \o rest]

\* The tree with the first model's column list replaced.
set_columns(config, cols) == [config EXCEPT !.models[1].columns = cols]

\* The outcome of one call: what it returns or raises (ret), the file after
\* it, and the tree in memory when it ends (NoConfig when none was loaded).
Outcome(r, f, c) == [ret |-> r, file |-> f, config |-> c]

NoConfig == Document(FALSE, <<>>)

\* "models" not in config or not config["models"], negated.
has_models(config) == config.hasModels /\ config.models # <<>>

\* A plausible slip: model.get("columns", []) instead of the key test.
has_columns_default(model) == TRUE

\* "columns" not in model, negated.
has_columns(model) == model.hasColumns

\* A plausible slip: the orders compared as sets of names.
already_ordered_as_sets(cur, new) ==
  {cur[i] : i \in 1..Len(cur)} = {new[i] : i \in 1..Len(new)}

\* current_order == new_order: equality of the two lists.
already_ordered(cur, new) == cur = new

\* reorder_yaml_columns(yaml_file, sql_columns); can_write says whether
\* open(filepath, "w") succeeds.
reorder_yaml_columns(f, sql_cols, can_write) ==
  IF f.kind = "missing" THEN Outcome("FileNotFoundError", f, NoConfig)
  ELSE IF f.kind = "malformed" THEN Outcome("YAMLError", f, NoConfig)
  ELSE
    LET config == read_yaml_file(f) IN
    IF ~has_models(config)
    THEN Outcome("ValueError", f, config)
    ELSE
      LET model == config.models[1] IN
      IF ~has_columns(model)
      THEN Outcome("ValueError", f, config)
      ELSE
        LET dict == col_dict(model.columns)
            cur == current_order(model.columns)
            new == new_order(sql_cols, dict)
        IN IF already_ordered(cur, new)
           THEN Outcome("False", f, config)
           ELSE LET config2 == set_columns(config, reordered(new, dict))
                IN IF can_write
                   THEN Outcome("True", write_yaml_file(config2), config2)
                   ELSE Outcome("IOError", f, config2)

----------------------------------------------------------------------------
(* main: the command line driver.                                          *)

DEFAULT_DIALECT == "bigquery"

\* choices of --dialect
Dialects == {"bigquery", "snowflake", "postgres", "redshift", "databricks", "duckdb"}

\* A path is a stem and a suffix: models/stg_users.sql is
\* [stem |-> "stg_users", ext |-> "sql"].
Stems == {"stg_users", "stg_events"}
Exts == {"sql", "yml", "yaml"}
Paths == [stem : Stems, ext : Exts]

\* A SQL file that exists: it can be opened or not; clean_sql and
\* extract_sql_columns over its text raise ParseError or give the names of
\* the SELECT list (sqlglot decides which: the text itself is not modelled).
UnreadableFile == [kind |-> "unreadable"]
SqlFile(parses, cols) == [kind |-> "sql", parses |-> parses, columns |-> cols]

\* Path(p).exists()
exists(fs, p) == fs[p].kind # "missing"

\* extract_sql_columns(clean_sql(sql), dialect)
extract_sql_columns(f) == f.columns

\* sql_file and yaml_file of an input: a .yml or .yaml input is the YAML
\* file and the SQL file has its suffix replaced by .sql; any other input
\* is the SQL file, and the YAML file has .sql replaced by .yml.
sql_file_of(input_file) ==
  IF input_file.ext \in {"yml", "yaml"}
  THEN [input_file EXCEPT !.ext = "sql"] ELSE input_file

yaml_file_of(input_file) ==
  IF input_file.ext \in {"yml", "yaml"}
  THEN input_file ELSE [input_file EXCEPT !.ext = "yml"]

\* What a run of main leaves: the files, the lines printed and the code
\* passed to sys.exit.
Exit(fs, out, err, code) == [files |-> fs, stdout |-> out, stderr |-> err, exit_code |-> code]

\* The try block of main around reorder_yaml_columns.
reorder_step(fs, yaml_file, cols, can_write) ==
  LET r == reorder_yaml_columns(fs[yaml_file], cols, can_write) IN
  CASE r.ret = "True" ->
         Exit([fs EXCEPT ![yaml_file] = r.file], <<"Reordered columns">>, <<>>, 1)
    [] r.ret = "False" -> Exit(fs, <<"Nothing to reorder">>, <<>>, 0)
    [] r.ret = "FileNotFoundError" -> Exit(fs, <<>>, <<"Error: YAML file not found">>, 1)
    [] r.ret = "YAMLError" -> Exit(fs, <<>>, <<"Error: Invalid YAML">>, 1)
    [] r.ret = "ValueError" -> Exit(fs, <<>>, <<"Error: No models or no columns found">>, 1)
    [] r.ret = "IOError" -> Exit(fs, <<>>, <<"Error: Cannot write">>, 1)

\* main() with sys.argv = [prog, *args, "--dialect", dialect].
main(args, dialect, fs, can_write) ==
  IF Len(args) # 1 \/ dialect \notin Dialects
  THEN \* parser.parse_args(): one positional file, --dialect among choices
       Exit(fs, <<>>, <<"usage">>, 2)
  ELSE
    LET input_file == args[1]
        sql_file == sql_file_of(input_file)
        yaml_file == yaml_file_of(input_file)
    IN
    IF ~exists(fs, sql_file)
    THEN Exit(fs, <<>>, <<"Error: SQL file not found">>, 1)
    ELSE IF ~exists(fs, yaml_file)
    THEN Exit(fs, <<>>, <<"Warning: YAML file not found", "Skipping">>, 0)
    ELSE IF fs[sql_file].kind = "unreadable"
    THEN Exit(fs, <<>>, <<"Error: Cannot read SQL file">>, 1)
    ELSE IF ~fs[sql_file].parses
    THEN Exit(fs, <<>>, <<"Error: Cannot parse SQL", "Parse error">>, 1)
    ELSE
      LET cols == extract_sql_columns(fs[sql_file]) IN
      IF cols = <<>>
      THEN Exit(fs, <<>>, <<"Warning: No columns found">>, 0)
      ELSE reorder_step(fs, yaml_file, cols, can_write)

\* The files of one stem in an initial file system.
UsersOutOfOrder ==
  DocFile(Document(TRUE, <<Model("stg_users", TRUE,
    PlainColumns(<< [name |-> "email", description |-> "User email"],
                    [name |-> "id", description |-> "Primary key"] >>))>>))

UsersInOrder ==
  DocFile(Document(TRUE, <<Model("stg_users", TRUE,
    PlainColumns(<< [name |-> "id", description |-> "Primary key"],
                    [name |-> "email", description |-> "User email"] >>))>>))

EventsOutOfOrder ==
  DocFile(Document(TRUE, <<Model("stg_events", TRUE,
    PlainColumns(<< [name |-> "created_at"], [name |-> "id"] >>))>>))

EventsInOrder ==
  DocFile(Document(TRUE, <<Model("stg_events", TRUE,
    PlainColumns(<< [name |-> "id"], [name |-> "created_at"] >>))>>))

UsersSqlFiles ==
  { MissingFile, UnreadableFile, SqlFile(FALSE, <<>>), SqlFile(TRUE, <<>>),
    SqlFile(TRUE, <<"id", "email">>) }

UsersYmlFiles ==
  { MissingFile, MalformedFile, DocFile(Document(FALSE, <<>>)),
    UsersOutOfOrder, UsersInOrder }

UsersYamlFiles == { MissingFile, UsersOutOfOrder }

EventsFiles ==
  { <<SqlFile(TRUE, <<"id", "created_at">>), EventsOutOfOrder>>,
    <<SqlFile(TRUE, <<"id", "created_at">>), EventsInOrder>>,
    <<MissingFile, EventsInOrder>> }

FileSystems ==
  { [p \in Paths |->
       IF p.stem = "stg_users"
       THEN (IF p.ext = "sql" THEN s ELSE IF p.ext = "yml" THEN y ELSE ya)
       ELSE (IF p.ext = "sql" THEN e[1] ELSE IF p.ext = "yml" THEN e[2] ELSE MissingFile)] :
      s \in UsersSqlFiles, y \in UsersYmlFiles, ya \in UsersYamlFiles, e \in EventsFiles }

----------------------------------------------------------------------------
(* State.                                                                  *)

VARIABLES
  yaml_file,    \* SpecReorder: the YAML file on disk
  sql_columns,  \* SpecReorder: the SQL-derived name sequence of every call
  runs,         \* SpecReorder: number of calls made
  ret,          \* SpecReorder: what the last call returned or raised
  config,       \* SpecReorder: the tree in memory when the last call ended
  prev_file,    \* SpecReorder: the file before the last call
  prev_ret,     \* SpecReorder: what the call before the last returned or raised
  argv,         \* SpecMain: the positional command line arguments
  dialect,      \* SpecMain: the value of --dialect
  files,        \* SpecMain: the file system, a file for every path
  init_files,   \* SpecMain: the file system when the run began
  stdout,       \* SpecMain: the lines printed on standard output
  stderr,       \* SpecMain: the lines printed on standard error
  exit_code     \* SpecMain: the process exit code, -1 while it runs

reorder_vars == <<yaml_file, sql_columns, runs, ret, config, prev_file, prev_ret>>
main_vars == <<argv, dialect, files, init_files, stdout, stderr, exit_code>>
vars == <<reorder_vars, main_vars>>

\* No call of reorder_yaml_columns made.
ReorderIdle ==
  /\ runs = 0
  /\ ret = "none"
  /\ config = NoConfig
  /\ prev_ret = "none"

\* No process started.
MainIdle ==
  /\ argv = <<>>
  /\ dialect = DEFAULT_DIALECT
  /\ files = [p \in Paths |-> MissingFile]
  /\ init_files = files
  /\ stdout = <<>>
  /\ stderr = <<>>
  /\ exit_code = -1

InitReorder ==
  /\ yaml_file \in {MissingFile, MalformedFile}
                   \cup {DocFile(d) : d \in ValidDocs \cup InvalidDocs}
  /\ sql_columns \in SeqsUpTo(Names, MaxSqlColumns)
  /\ prev_file = yaml_file
  /\ ReorderIdle
  /\ MainIdle

\* One call reorder_yaml_columns(yaml_file, sql_columns).
CallReorder ==
  /\ runs < MaxRuns
  /\ \E can_write \in BOOLEAN :
       LET out == reorder_yaml_columns(yaml_file, sql_columns, can_write) IN
       /\ yaml_file' = out.file
       /\ ret' = out.ret
       /\ config' = out.config
  /\ prev_file' = yaml_file
  /\ prev_ret' = ret
  /\ runs' = runs + 1
  /\ UNCHANGED <<sql_columns, main_vars>>

NextReorder == CallReorder

SpecReorder == InitReorder /\ [][NextReorder]_vars

InitMain ==
  /\ argv \in SeqsUpTo(Paths, MaxArgs)
  /\ dialect \in {DEFAULT_DIALECT, "snowflake", "mysql"}
  /\ files \in FileSystems
  /\ init_files = files
  /\ stdout = <<>>
  /\ stderr = <<>>
  /\ exit_code = -1
  /\ yaml_file = MissingFile
  /\ sql_columns = <<>>
  /\ prev_file = yaml_file
  /\ ReorderIdle

\* One run of the program, from parse_args to sys.exit.
Main ==
  /\ exit_code = -1
  /\ \E can_write \in BOOLEAN :
       LET out == main(argv, dialect, files, can_write) IN
       /\ files' = out.files
       /\ stdout' = out.stdout
       /\ stderr' = out.stderr
       /\ exit_code' = out.exit_code
  /\ UNCHANGED <<argv, dialect, init_files, reorder_vars>>

NextMain == Main

SpecMain == InitMain /\ [][NextMain]_vars

----------------------------------------------------------------------------
(* Reading a file as the claims do: the entries a YAML column list         *)
(* denotes, aliases resolved.                                              *)

EntryAt(nodes, p) ==
  IF nodes[p].kind = "map" THEN nodes[p].val
  ELSE nodes[CHOOSE q \in 1..Len(nodes) :
               nodes[q].kind = "map" /\ nodes[q].anchor = nodes[p].anchor].val

EntriesOf(nodes) == [p \in 1..Len(nodes) |-> EntryAt(nodes, p)]

NamesOf(es) == [p \in 1..Len(es) |-> es[p].name]

NameSet(es) == {es[p].name : p \in 1..Len(es)}

\* The file holds a document whose first model has a column list.
HasColumnList(f) ==
  /\ f.kind = "doc"
  /\ f.doc.hasModels
  /\ f.doc.models # <<>>
  /\ f.doc.models[1].hasColumns

\* The first model's column list in a file.
ColumnList(f) == EntriesOf(f.doc.models[1].columns)

\* The SQL-derived sequence restricted to the names of a column list.
Restricted(sql_cols, es) == SelectSeq(sql_cols, LAMBDA n : n \in NameSet(es))

\* Entry e carries every non-name key of entry d, with d's value.
KeepsProperties(e, d) ==
  \A key \in DOMAIN d \ {"name"} : key \in DOMAIN e /\ e[key] = d[key]

\* The last call returned (True or False) rather than raised.
Returned == ret \in {"True", "False"}

Before == ColumnList(prev_file)
After == ColumnList(yaml_file)

----------------------------------------------------------------------------
(* The claims on reorder_yaml_columns, checked under SpecReorder.          *)

\* C1: when reorder_yaml_columns reports changed, the first model's column
\* list afterwards is the SQL-derived sequence restricted to the names of the
\* original column list, in SQL order, and each position holds the original
\* entry the lookup has for that name (the last entry of that name).
C1_ChangedListIsRestrictedSql ==
  ret = "True" =>
    /\ NamesOf(After) = Restricted(sql_columns, Before)
    /\ \A k \in 1..Len(After) :
         \E i \in 1..Len(Before) :
           /\ Before[i] = After[k]
           /\ \A j \in (i + 1)..Len(Before) : Before[j].name # After[k].name

\* C1 witness: a changed run where the SQL names a column the document
\* lacks and the document holds two entries of one name.
C1_Witness ==
  /\ ret = "True"
  /\ \E k \in 1..Len(sql_columns) : sql_columns[k] \notin NameSet(Before)
  /\ \E i, j \in 1..Len(Before) : i < j /\ Before[i].name = Before[j].name
                                        /\ Before[i] # Before[j]
  /\ Len(After) >= 1

\* C2: a run reports changed only if the document's name sequence differed
\* from the SQL-derived one, and a run that follows a run that returned
\* reports unchanged and leaves the file as the earlier run left it.
C2_Idempotent ==
  /\ (ret = "True" => NamesOf(Before) # sql_columns)
  /\ (runs >= 2 /\ prev_ret \in {"True", "False"} =>
        ret = "False" /\ yaml_file = prev_file)

\* C2 witness: a second run after a run that changed a document with
\* duplicate SQL names.
C2_Witness ==
  /\ runs = 2
  /\ prev_ret = "True"
  /\ ret = "False"
  /\ \E i, j \in 1..Len(sql_columns) : i < j /\ sql_columns[i] = sql_columns[j]
                                             /\ sql_columns[i] \in NameSet(After)

\* C3 as stated: after a run that returned, every entry of the column list
\* before the run has its non-name keys and values in some entry of its name
\* in the list after the run.
C3_EveryEntryKept ==
  Returned =>
    \A i \in 1..Len(Before) :
      \E k \in 1..Len(After) :
        After[k].name = Before[i].name /\ KeepsProperties(After[k], Before[i])

\* C3 amended: after a run that returned, every entry of the column list
\* before the run whose name occurs in the SQL-derived sequence and which is
\* the last entry of its name has its non-name keys and values in an entry
\* of its name in the list after the run.
C3_RetainedEntryKept ==
  Returned =>
    \A i \in 1..Len(Before) :
      (/\ \E k \in 1..Len(sql_columns) : sql_columns[k] = Before[i].name
       /\ \A j \in (i + 1)..Len(Before) : Before[j].name # Before[i].name)
      => \E k \in 1..Len(After) :
           After[k].name = Before[i].name /\ KeepsProperties(After[k], Before[i])

\* C3 witness: a changed run that moved an entry carrying a description.
C3_Witness ==
  /\ ret = "True"
  /\ \E i \in 1..Len(Before), k \in 1..Len(After) :
       /\ i # k
       /\ "description" \in DOMAIN Before[i]
       /\ After[k] = Before[i]
       /\ \A j \in 1..Len(Before) : j # i => Before[j].name # Before[i].name

\* C4: when the column list holds a name that does not occur in the
\* SQL-derived sequence, the run never reports unchanged, and when it
\* reports changed that name is absent from the list written back.
C4_DropPolicy ==
  (runs >= 1 /\ HasColumnList(prev_file)) =>
    \A i \in 1..Len(Before) :
      (\A k \in 1..Len(sql_columns) : sql_columns[k] # Before[i].name) =>
        /\ ret \in {"True", "IOError"}
        /\ (ret = "True" => Before[i].name \notin NameSet(After))

\* C4 witness: a changed run that dropped a column and kept another.
C4_Witness ==
  /\ ret = "True"
  /\ \E i \in 1..Len(Before) : Before[i].name \notin NameSet(After)
  /\ Len(After) >= 1

\* C8: on a document without a models key, with an empty models list or
\* with a first model without a columns key the run raises ValueError, the
\* tree is as loaded and the file is untouched; and whenever the file
\* differs after a run, that run reported changed.
C8_StructuralErrorNoWrite ==
  runs >= 1 =>
    /\ (prev_file.kind = "doc" /\ ~HasColumnList(prev_file) =>
          /\ ret = "ValueError"
          /\ yaml_file = prev_file
          /\ config = read_yaml_file(prev_file))
    /\ (yaml_file # prev_file => ret = "True")

\* C8 witness: a run on a document whose first model has no columns key,
\* with SQL names at hand.
C8_Witness ==
  /\ ret = "ValueError"
  /\ prev_file.doc.models # <<>>
  /\ sql_columns # <<>>

\* C9: on a document with a column list the run reports unchanged exactly
\* when the restricted SQL order equals the current name sequence; then the
\* tree in memory is as loaded and the file is untouched; and the file
\* differs after a run exactly when the run reported changed.
C9_UnchangedNoEffect ==
  (runs >= 1 /\ HasColumnList(prev_file)) =>
    /\ (ret \in {"True", "False", "IOError"})
    /\ (ret = "False" <=> Restricted(sql_columns, Before) = NamesOf(Before))
    /\ (ret = "False" => config = read_yaml_file(prev_file) /\ yaml_file = prev_file)
    /\ (ret = "True" <=> yaml_file # prev_file)

\* C9 witness: a changed run whose new order has the names of the old one
\* in another order.
C9_Witness ==
  /\ ret = "True"
  /\ NameSet(Before) = NameSet(After)
  /\ Len(Before) = Len(After)
  /\ NamesOf(Before) # NamesOf(After)

\* C10: a run that reports changed replaces only the column list of the
\* first model: with that list put back, the document is the one before.
C10_OnlyFirstModel ==
  ret = "True" =>
    /\ yaml_file.kind = "doc"
    /\ [yaml_file.doc EXCEPT !.models[1].columns = prev_file.doc.models[1].columns]
         = prev_file.doc

\* C10 witness: a changed run on a document with a second model.
C10_Witness ==
  /\ ret = "True"
  /\ Len(prev_file.doc.models) >= 2
  /\ Len(yaml_file.doc.models) >= 2

----------------------------------------------------------------------------
(* The claims on the driver, checked under SpecMain.                       *)

\* The process has exited.
Exited == exit_code # -1

\* The command line is one the documented interface accepts: at least one
\* path and a supported dialect.
ValidCommandLine == Len(argv) >= 1 /\ dialect \in Dialects

\* Some document differs on disk from what it was when the run began.
Modified == files # init_files

\* The input's SQL file exists, parses and selects columns, and its YAML
\* file holds a document whose first model has a column list.
CompletePair(fs, input) ==
  /\ fs[sql_file_of(input)].kind = "sql"
  /\ fs[sql_file_of(input)].parses
  /\ fs[sql_file_of(input)].columns # <<>>
  /\ HasColumnList(fs[yaml_file_of(input)])

\* The input's document on disk lists its columns in the SQL order.
InSqlOrder(input) ==
  NamesOf(ColumnList(files[yaml_file_of(input)]))
    = Restricted(init_files[sql_file_of(input)].columns,
                 ColumnList(init_files[yaml_file_of(input)]))

\* The input is one the driver is to skip: no SQL file, no YAML file, or a
\* SQL file that selects no columns.
Skipped(fs, input) ==
  \/ ~exists(fs, sql_file_of(input))
  \/ ~exists(fs, yaml_file_of(input))
  \/ /\ fs[sql_file_of(input)].kind = "sql"
     /\ fs[sql_file_of(input)].parses
     /\ fs[sql_file_of(input)].columns = <<>>

\* A stage raises on the input: the SQL cannot be read or parsed, or the
\* document is malformed or lacks models or columns.
FailsAtStage(fs, input) ==
  /\ exists(fs, sql_file_of(input))
  /\ exists(fs, yaml_file_of(input))
  /\ \/ fs[sql_file_of(input)].kind = "unreadable"
     \/ fs[sql_file_of(input)].kind = "sql" /\ ~fs[sql_file_of(input)].parses
     \/ /\ fs[sql_file_of(input)].kind = "sql"
        /\ fs[sql_file_of(input)].parses
        /\ fs[sql_file_of(input)].columns # <<>>
        /\ ~HasColumnList(fs[yaml_file_of(input)])

\* C5: given one or more input paths, the driver processes all of them and
\* then exits with code 1 if a document was modified and with code 0
\* otherwise; every pair's document ends in SQL order on disk.  Stated for
\* the runs whose inputs are all complete pairs and whose writes succeed,
\* the runs of the test with two pairs among them.
C5_ExitCodePolicy ==
  (/\ Exited
   /\ ValidCommandLine
   /\ \A k \in 1..Len(argv) : CompletePair(init_files, argv[k])
   /\ \A k \in 1..Len(stderr) : stderr[k] # "Error: Cannot write") =>
    /\ exit_code = (IF Modified THEN 1 ELSE 0)
    /\ \A k \in 1..Len(argv) : InSqlOrder(argv[k])

\* C6: an exception raised by a stage for one input is reported on the
\* error stream, the other inputs are still processed, and the failure
\* alone does not make the run exit with the code of a modified run.
C6_ErrorIsolation ==
  (/\ Exited
   /\ ValidCommandLine
   /\ \E k \in 1..Len(argv) : FailsAtStage(init_files, argv[k])) =>
    /\ stderr # <<>>
    /\ \A k \in 1..Len(argv) :
         CompletePair(init_files, argv[k]) => InSqlOrder(argv[k])
    /\ (~Modified => exit_code # 1)

\* C7: a single input without SQL file, without YAML file or whose SQL
\* selects no columns produces no output and no error, leaves every file
\* unchanged and does not end the run with a non-zero exit code.
C7_SilentSkip ==
  (/\ Exited
   /\ Len(argv) = 1
   /\ dialect \in Dialects
   /\ Skipped(init_files, argv[1])) =>
    /\ stdout = <<>>
    /\ stderr = <<>>
    /\ files = init_files
    /\ exit_code = 0

====
